---------------------------- MODULE Spec2Model ----------------------------
(***************************************************************************)
(* State-machine model of gecode/cpltset/support.hpp:                      *)
(*   - testConsistency        (bound-specification validation),            *)
(*   - variableorder          (single-scope variable order),               *)
(*   - ValCache               (cached value sequence with a cursor),       *)
(*   - extcardcheck / extcardeq / extcardlqgq / cardConst                  *)
(*                            (layered cardinality diagram builders).      *)
(*                                                                         *)
(* A diagram (bdd) is modelled by the boolean function it denotes: the set *)
(* of assignments it accepts.  An assignment is a bit vector, encoded as a *)
(* natural number whose bit v is the value of diagram variable (slot) v.   *)
(***************************************************************************)
EXTENDS Integers, Sequences, FiniteSets, TLC

(***************************************************************************)
(* Bounds of the model.                                                    *)
(***************************************************************************)
\* Largest value allowed by the (scaled-down) global set limits.
MaxVal == 1
\* Largest number of values in an intersection / constant set.
MaxM == 4
\* Largest number of diagram variable slots allocated in the manager.
MaxSlots == 5
\* Largest number of views in a view array.
MaxViews == 2
\* Largest initialLubMin of a view in the two-scope variableorder.
MaxLubMin == 1
\* Largest number of slots of the table in the two-scope variableorder.
MaxSlots2 == 4

\* Farthest the cursor of a ValCache is moved past the ends of the cache.
MaxOver == 2

VARIABLES
  tc,          \* testConsistency: arguments and the signal raised
  views,       \* variableorder: the view array x
  yviews,      \* variableorder: the view array y of the two-scope form (else << >>)
  var_in_tab,  \* variableorder: manager.allocated()
  vo,          \* variableorder: locals (pc, min_offset, max_width, hls_order, c, i, f)
  order,       \* variableorder: the order installed by manager.setorder
  fn,          \* builders: the function called ("extcardcheck" or "cardConst")
  inter,       \* builders: the ValCache [r, c, n, s]
  loc,         \* builders: locals (pc, cl, cr, n, r, i, pos, f, acc)
  layer,       \* builders: the layer array (<< >> before it is allocated)
  ret,         \* builders: the value returned ([done |-> FALSE] before the return)
  obs,         \* builders: what the run did (written, reads, badRead, layerFault)
  src,         \* ValCache: the source iterator and the array d of init
  trav         \* ValCache: the caller's traversal (mode, out, read, op, ok)

tcVars == <<tc>>
voVars == <<views, yviews, var_in_tab, vo, order>>
cardVars == <<fn, inter, loc, layer, ret, obs>>
vcVars == <<src, trav>>
vars == <<tc, views, yviews, var_in_tab, vo, order, fn, inter, loc, layer, ret, obs, src, trav>>

Min(S) == CHOOSE a \in S : \A b \in S : a <= b
Max(S) == CHOOSE a \in S : \A b \in S : a >= b

(***************************************************************************)
(* testConsistency                                                         *)
(***************************************************************************)
\* Set::Limits, scaled down to the bound MaxVal (card = max - min + 1).
SetLimitsMax == MaxVal
SetLimitsMin == -MaxVal
SetLimitsCard == SetLimitsMax - SetLimitsMin + 1

\* Values an IntSet may hold: Int::Limits is wider than Set::Limits.
IntValues == (SetLimitsMin - 1) .. (SetLimitsMax + 1)
\* IntSet arguments: the empty set and every range of values.
IntSets == {a .. b : a \in IntValues, b \in IntValues}
\* int cardMin / cardMax arguments.
CardValues == -1 .. (SetLimitsCard + 2)

\* GlbChecks without the containment test of lines 243-249.
GlbChecks_NoContainment(glb, lub) ==
  IF glb = {} THEN "ok"
  ELSE IF lub = {} \/ Min(glb) > Max(glb) THEN "FailedDomain"
  ELSE IF Min(glb) < SetLimitsMin \/ Max(glb) > SetLimitsMax THEN "OutOfRangeDomain"
  ELSE "ok"

\* Lines 228-250: the checks made when glb is non-empty.
GlbChecks(glb, lub) ==
  IF glb = {} THEN "ok"
  ELSE LET glbMin == Min(glb)
           glbMax == Max(glb)
       IN  IF lub = {} \/ glbMin > glbMax THEN "FailedDomain"
           ELSE IF glbMin < SetLimitsMin \/ glbMax > SetLimitsMax
                THEN "OutOfRangeDomain"
           ELSE LET lubMin == Min(lub)
                    lubMax == Max(lub)
                IN  IF (glbMin < lubMin \/ glbMin > lubMax)
                         \/ (glbMax > lubMax \/ glbMax < lubMin)
                    THEN "FailedDomain"
                    ELSE "ok"

\* LubChecks with the limit test of lines 255-259 left out.
LubChecks_NoLimits(lub) ==
  IF lub = {} THEN "ok"
  ELSE IF Min(lub) > Max(lub) THEN "FailedDomain"
  ELSE "ok"

\* Lines 252-263: the checks made when lub is non-empty.
LubChecks(lub) ==
  IF lub = {} THEN "ok"
  ELSE LET lubMin == Min(lub)
           lubMax == Max(lub)
       IN  IF lubMin < SetLimitsMin \/ lubMax > SetLimitsMax
           THEN "OutOfRangeDomain"
           ELSE IF lubMin > lubMax THEN "FailedDomain"
           ELSE "ok"

\* CardChecks with the test of cardMin (lines 271-275) made before line 268.
CardChecks_MinFirst(cardMin, cardMax) ==
  IF cardMax < 0 THEN "FailedDomain"
  ELSE IF cardMin > cardMax \/ cardMin < 0 THEN "FailedDomain"
  ELSE IF cardMax > SetLimitsCard THEN "OutOfRangeCardinality"
  ELSE "ok"

\* Lines 265-276: the cardinality checks.
CardChecks(cardMin, cardMax) ==
  IF cardMax < 0 THEN "FailedDomain"
  ELSE IF cardMax > SetLimitsCard THEN "OutOfRangeCardinality"
  ELSE IF cardMin > cardMax \/ cardMin < 0 THEN "FailedDomain"
  ELSE "ok"

\* The exception thrown by testConsistency ("ok": it returns normally).
TestConsistencySignal(glb, lub, cardMin, cardMax) ==
  IF GlbChecks(glb, lub) # "ok" THEN GlbChecks(glb, lub)
  ELSE IF LubChecks(lub) # "ok" THEN LubChecks(lub)
  ELSE CardChecks(cardMin, cardMax)

\* A call of testConsistency: it returns, or throws the exception recorded in signal.
testConsistency ==
  /\ tc.signal = "none"
  /\ tc' = [tc EXCEPT !.signal =
              TestConsistencySignal(tc.glb, tc.lub, tc.cardMin, tc.cardMax)]
  /\ UNCHANGED <<voVars, cardVars, vcVars>>

(***************************************************************************)
(* variableorder (single scope)                                            *)
(*                                                                         *)
(* A view is a record [offset, tableWidth]: its first slot and its number  *)
(* of slots.  The C++ array x[0..size-1] is the sequence views[1..size]:   *)
(* x[i] is views[i + 1].  hls_order is a function on 0 .. var_in_tab - 1;  *)
(* an entry not yet written holds Unwritten.                               *)
(***************************************************************************)
Unwritten == -1

Slots(v) == v.offset .. (v.offset + v.tableWidth - 1)

\* The views of distinct variables among V slots own disjoint slot ranges.
ViewsOf(V) ==
  {v \in [offset : 0 .. (V - 1), tableWidth : 1 .. V] : v.offset + v.tableWidth <= V}

ViewArrays(V) ==
  {x \in UNION {[1 .. k -> ViewsOf(V)] : k \in 1 .. MaxViews} :
     \A a \in DOMAIN x, b \in DOMAIN x : a # b => Slots(x[a]) \cap Slots(x[b]) = {}}

\* Lines 284-293: one iteration of the loop computing min_offset and max_width
\* (its exit sets c = 0 and starts the loop of line 302).
variableorder_scan ==
  /\ vo.pc = "scan"
  /\ IF vo.i < Len(views)
     THEN LET xi == views[vo.i + 1]
          IN  vo' = [vo EXCEPT
                       !.min_offset = IF xi.offset < @ THEN xi.offset ELSE @,
                       !.max_width  = IF xi.tableWidth > @ THEN xi.tableWidth ELSE @,
                       !.i = @ + 1]
     ELSE vo' = [vo EXCEPT !.pc = "below", !.c = 0, !.i = 0]
  /\ UNCHANGED <<views, yviews, var_in_tab, order, tcVars, cardVars, vcVars>>

\* Lines 301-304: slots below the minimum offset keep their position.
variableorder_below ==
  /\ vo.pc = "below"
  /\ IF vo.i < vo.min_offset
     THEN vo' = [vo EXCEPT !.hls_order[vo.i] = vo.i, !.i = @ + 1, !.c = @ + 1]
     ELSE vo' = [vo EXCEPT !.pc = "scope", !.f = 0, !.i = 0]
  /\ UNCHANGED <<views, yviews, var_in_tab, order, tcVars, cardVars, vcVars>>

\* variableorder_scope with the test of line 312 as cur <= xo + xw.
variableorder_scope_OffByOne ==
  /\ vo.pc = "scope"
  /\ IF vo.f < vo.max_width
     THEN IF vo.i < Len(views)
          THEN LET xo  == views[vo.i + 1].offset
                   xw  == views[vo.i + 1].tableWidth
                   cur == xo + vo.f
               IN  IF cur <= xo + xw
                   THEN vo' = [vo EXCEPT !.hls_order[vo.c] = cur, !.c = @ + 1,
                                         !.i = @ + 1]
                   ELSE vo' = [vo EXCEPT !.i = @ + 1]
          ELSE vo' = [vo EXCEPT !.f = @ + 1, !.i = 0]
     ELSE vo' = [vo EXCEPT !.pc = "rest", !.i = vo.c]
  /\ UNCHANGED <<views, yviews, var_in_tab, order, tcVars, cardVars, vcVars>>

\* Lines 307-317: one step of the nested loops over columns f and views i.
variableorder_scope ==
  /\ vo.pc = "scope"
  /\ IF vo.f < vo.max_width
     THEN IF vo.i < Len(views)
          THEN LET xo  == views[vo.i + 1].offset
                   xw  == views[vo.i + 1].tableWidth
                   cur == xo + vo.f
               IN  IF cur < xo + xw
                   THEN vo' = [vo EXCEPT !.hls_order[vo.c] = cur, !.c = @ + 1,
                                         !.i = @ + 1]
                   ELSE vo' = [vo EXCEPT !.i = @ + 1]
          ELSE vo' = [vo EXCEPT !.f = @ + 1, !.i = 0]
     ELSE vo' = [vo EXCEPT !.pc = "rest", !.i = vo.c]
  /\ UNCHANGED <<views, yviews, var_in_tab, order, tcVars, cardVars, vcVars>>

\* Lines 319-322: the remaining positions hold their own index.
variableorder_rest ==
  /\ vo.pc = "rest"
  /\ IF vo.i < var_in_tab
     THEN vo' = [vo EXCEPT !.hls_order[vo.i] = vo.i, !.i = @ + 1, !.c = @ + 1]
     ELSE vo' = [vo EXCEPT !.pc = "setorder"]
  /\ UNCHANGED <<views, yviews, var_in_tab, order, tcVars, cardVars, vcVars>>

\* Line 324: manager.setorder(&hls_order[0]).
variableorder_setorder ==
  /\ vo.pc = "setorder"
  /\ order' = vo.hls_order
  /\ vo' = [vo EXCEPT !.pc = "done"]
  /\ UNCHANGED <<views, yviews, var_in_tab, tcVars, cardVars, vcVars>>

(***************************************************************************)
(* variableorder (two scopes): variableorder(home, x, y), lines 327-390.   *)
(*                                                                         *)
(* A view is here a record of what the accessors called on it return:     *)
(* [offset, tableWidth, initialLubMin] for a view of x, and also           *)
(* initialLubMax for a view of y; y[i] is yviews[i + 1].                   *)
(***************************************************************************)
\* The views x[i] of a table of V slots.
XViewsOf2(V) ==
  {v \in [offset : 0 .. (V - 1), tableWidth : 0 .. V, initialLubMin : 0 .. MaxLubMin] :
     v.offset + v.tableWidth <= V}

\* The views y[i] of a table of V slots: the lub of a view may be empty
\* (initialLubMax < initialLubMin).
YViewsOf2(V) ==
  {v \in [offset : 0 .. (V - 1), tableWidth : 0 .. V,
          initialLubMin : 0 .. MaxLubMin, initialLubMax : -1 .. (MaxLubMin + V)] :
     /\ v.offset + v.tableWidth <= V
     /\ v.initialLubMax \in (v.initialLubMin - 1) .. (v.initialLubMin + v.tableWidth)}

\* The arrays x and y: views of distinct variables (disjoint slot ranges); the
\* views of one array have the same initial bounds (lines 365-367).
ViewArrays2(V) ==
  {xy \in (UNION {[1 .. k -> XViewsOf2(V)] : k \in 1 .. MaxViews})
          \X (UNION {[1 .. k -> YViewsOf2(V)] : k \in 0 .. MaxViews}) :
     LET x == xy[1]
         y == xy[2]
     IN  /\ \A a \in DOMAIN x : x[a].initialLubMin = x[1].initialLubMin
         /\ \A b \in DOMAIN y :
              /\ y[b].initialLubMin = y[1].initialLubMin
              /\ y[b].initialLubMax = y[1].initialLubMax
         /\ \A a \in DOMAIN x, b \in DOMAIN x : a # b => Slots(x[a]) \cap Slots(x[b]) = {}
         /\ \A a \in DOMAIN y, b \in DOMAIN y : a # b => Slots(y[a]) \cap Slots(y[b]) = {}
         /\ \A a \in DOMAIN x, b \in DOMAIN y : Slots(x[a]) \cap Slots(y[b]) = {}}

\* hls_order[c] = cur on the array of var_in_tab entries allocated at line
\* 345: a store at c >= var_in_tab is outside the array and leaves it as it is.
Store(h, c, cur) == IF c \in DOMAIN h THEN [h EXCEPT ![c] = cur] ELSE h

\* The step about to run is the store of line 362 (a view of x in column f).
StoresX ==
  /\ vo.pc = "scope2x"
  /\ vo.f < vo.max_width
  /\ vo.i < Len(views)
  /\ vo.f < views[vo.i + 1].tableWidth

\* The step about to run is the store of line 378 (a view of y in column f).
StoresY ==
  /\ vo.pc = "scope2y"
  /\ vo.i < Len(yviews)
  /\ views[1].initialLubMin + vo.f >= yviews[vo.i + 1].initialLubMin
  /\ views[1].initialLubMin + vo.f <= yviews[vo.i + 1].initialLubMax
  /\ vo.f - (yviews[vo.i + 1].initialLubMin - views[1].initialLubMin)
       <= yviews[vo.i + 1].tableWidth

\* Lines 334-341: one iteration of the loop computing min_offset and max_width
\* over x (its exit sets c = 0 and starts the loop of line 350).
variableorder2_scan ==
  /\ vo.pc = "scan2"
  /\ IF vo.i < Len(views)
     THEN LET xi == views[vo.i + 1]
          IN  vo' = [vo EXCEPT
                       !.min_offset = IF xi.offset < @ THEN xi.offset ELSE @,
                       !.max_width  = IF xi.tableWidth > @ THEN xi.tableWidth ELSE @,
                       !.i = @ + 1]
     ELSE vo' = [vo EXCEPT !.pc = "below2", !.c = 0, !.i = 0]
  /\ UNCHANGED <<views, yviews, var_in_tab, order, tcVars, cardVars, vcVars>>

\* Lines 349-352: slots below the minimum offset keep their position.
variableorder2_below ==
  /\ vo.pc = "below2"
  /\ IF vo.i < vo.min_offset
     THEN vo' = [vo EXCEPT !.hls_order[vo.i] = vo.i, !.i = @ + 1, !.c = @ + 1]
     ELSE vo' = [vo EXCEPT !.pc = "scope2x", !.f = 0, !.i = 0]
  /\ UNCHANGED <<views, yviews, var_in_tab, order, tcVars, cardVars, vcVars>>

\* Lines 355-364: the test of the loop over the columns f, and one step of the
\* loop over the views of x in column f (its exit starts the loop over y).
variableorder2_scope_x ==
  /\ vo.pc = "scope2x"
  /\ IF vo.f < vo.max_width
     THEN IF vo.i < Len(views)
          THEN LET xo  == views[vo.i + 1].offset
                   xw  == views[vo.i + 1].tableWidth
                   cur == xo + vo.f
               IN  IF cur < xo + xw
                   THEN vo' = [vo EXCEPT !.hls_order = Store(@, vo.c, cur),
                                         !.c = @ + 1, !.i = @ + 1]
                   ELSE vo' = [vo EXCEPT !.i = @ + 1]
          ELSE vo' = [vo EXCEPT !.pc = "scope2y", !.i = 0]
     ELSE vo' = [vo EXCEPT !.pc = "rest2", !.i = vo.c]
  /\ UNCHANGED <<views, yviews, var_in_tab, order, tcVars, cardVars, vcVars>>

\* Lines 369-382: one step of the loop over the views of y in column f (its
\* exit ends the column).
variableorder2_scope_y ==
  /\ vo.pc = "scope2y"
  /\ IF vo.i < Len(yviews)
     THEN LET yi    == yviews[vo.i + 1]
              x0min == views[1].initialLubMin
          IN  IF x0min + vo.f >= yi.initialLubMin /\ x0min + vo.f <= yi.initialLubMax
              THEN LET xyshift == yi.initialLubMin - x0min
                       yo      == yi.offset
                       yw      == yi.tableWidth
                       cur     == yo + vo.f - xyshift
                   IN  IF cur <= yo + yw
                       THEN vo' = [vo EXCEPT !.hls_order = Store(@, vo.c, cur),
                                             !.c = @ + 1, !.i = @ + 1]
                       ELSE vo' = [vo EXCEPT !.i = @ + 1]
              ELSE vo' = [vo EXCEPT !.i = @ + 1]
     ELSE vo' = [vo EXCEPT !.pc = "scope2x", !.f = @ + 1, !.i = 0]
  /\ UNCHANGED <<views, yviews, var_in_tab, order, tcVars, cardVars, vcVars>>

\* Lines 362 and 378 with c >= var_in_tab: the store is outside hls_order,
\* unchecked.  The run either goes on with the array as it is
\* (variableorder2_scope_x, variableorder2_scope_y), or is stopped at the
\* store (a build that checks its memory accesses) and setorder is not called.
variableorder2_overflow ==
  /\ StoresX \/ StoresY
  /\ vo.c >= var_in_tab
  /\ vo' = [vo EXCEPT !.pc = "aborted"]
  /\ UNCHANGED <<views, yviews, var_in_tab, order, tcVars, cardVars, vcVars>>

\* Lines 385-387: the remaining positions hold their own index.
variableorder2_rest ==
  /\ vo.pc = "rest2"
  /\ IF vo.i < var_in_tab
     THEN vo' = [vo EXCEPT !.hls_order[vo.i] = vo.i, !.i = @ + 1, !.c = @ + 1]
     ELSE vo' = [vo EXCEPT !.pc = "setorder2"]
  /\ UNCHANGED <<views, yviews, var_in_tab, order, tcVars, cardVars, vcVars>>

\* Line 389: manager.setorder(&hls_order[0]).
variableorder2_setorder ==
  /\ vo.pc = "setorder2"
  /\ order' = vo.hls_order
  /\ vo' = [vo EXCEPT !.pc = "done"]
  /\ UNCHANGED <<views, yviews, var_in_tab, tcVars, cardVars, vcVars>>

(***************************************************************************)
(* ValCache: r holds the cached values (r[c] of the source is r[c + 1]     *)
(* here), c is the cursor, n the number of cached values, s the size.      *)
(***************************************************************************)
\* Lines 114-132, for the values 1 .. m in increasing order.
ValCache_init(m) == [r |-> [p \in 1 .. m |-> p], c |-> 0, n |-> m, s |-> m]

\* Lines 152-156: operator().
Valid(ic) == -1 < ic.c /\ ic.c < ic.n

\* operator++ moving the cursor by two.
Inc_ByTwo(ic) == [ic EXCEPT !.c = @ + 2]

\* Lines 140-144 and 146-150: operator++ and operator--.
Inc(ic) == [ic EXCEPT !.c = @ + 1]
Dec(ic) == [ic EXCEPT !.c = @ - 1]

\* reset putting the cursor at 1 instead of 0.
Reset_ToOne(ic) == [ic EXCEPT !.c = 1]

\* Lines 158-174: reset, last and finish.
Reset(ic) == [ic EXCEPT !.c = 0]
Last(ic) == [ic EXCEPT !.c = ic.n - 1]
Finish(ic) == [ic EXCEPT !.c = -1]

\* Lines 206-217: index(i) and index().
\* An unsigned int value v (32 bits) is the record of its two 16-bit halves,
\* [hi |-> v \div 2^16, lo |-> v % 2^16].  UInt(c) is the conversion of the
\* int c to unsigned int (c + 2^32 for c < 0), ToInt(u) the conversion back.
UInt(c) == [hi |-> (c \div (2 ^ 16)) % (2 ^ 16), lo |-> c % (2 ^ 16)]
ToInt(u) ==
  IF u.hi >= 2 ^ 15 THEN (u.hi - 2 ^ 16) * (2 ^ 16) + u.lo
  ELSE u.hi * (2 ^ 16) + u.lo

\* index(unsigned int i) assigns i to the int c; index() returns the int c as
\* unsigned int.
SetIndex(ic, p) == [ic EXCEPT !.c = ToInt(p)]
Index(ic) == UInt(ic.c)

\* Lines 176-180: min() returns r[c].  At an invalid cursor the read is out of
\* the array and yields whatever the memory holds there: junk.
ReadMin(ic, junk) == IF Valid(ic) THEN ic.r[ic.c + 1] ELSE junk

(***************************************************************************)
(* ValCache used by a caller.  src is the source iterator i of init: all   *)
(* its values, the number i of values consumed, and the array d.  trav     *)
(* records what the caller does: mode is "fwd" after reset() and "bwd"     *)
(* after last(), as long as the caller only alternates val() with ++       *)
(* (resp. --); out holds the values val() returned since then; read tells  *)
(* that val() was called at the current position; op is the last           *)
(* operation and ok the result of the last operator().                     *)
(***************************************************************************)
\* The strictly increasing sequence of the values of S.
SeqOf(S) ==
  CHOOSE q \in [1 .. Cardinality(S) -> S] :
    \A a \in DOMAIN q, b \in DOMAIN q : a < b => q[a] < q[b]

\* The sources: every sequence of distinct increasing values among 1 .. MaxM.
Sources == {SeqOf(S) : S \in SUBSET (1 .. MaxM)}

Reverse(q) == [p \in 1 .. Len(q) |-> q[Len(q) + 1 - p]]

\* Lines 120-124: one iteration of the loop draining the source into d.
ValCache_drain ==
  /\ src.pc = "drain" /\ src.i < Len(src.all)
  /\ src' = [src EXCEPT !.d = Append(@, src.all[src.i + 1]), !.i = @ + 1]
  /\ inter' = [inter EXCEPT !.s = @ + 1]
  /\ UNCHANGED <<trav, fn, loc, layer, ret, obs, tcVars, voVars>>

\* Lines 120, 125-131: the source is exhausted; c, n and the copy of d into r.
ValCache_build ==
  /\ src.pc = "drain" /\ src.i = Len(src.all)
  /\ inter' = [inter EXCEPT !.r = src.d, !.c = 0, !.n = src.i]
  /\ src' = [src EXCEPT !.pc = "ready"]
  /\ UNCHANGED <<trav, fn, loc, layer, ret, obs, tcVars, voVars>>

\* Lines 158-162: reset(); the caller starts a forward traversal.
ValCache_reset ==
  /\ src.pc = "ready"
  /\ inter' = Reset(inter)
  /\ trav' = [trav EXCEPT !.mode = "fwd", !.out = << >>, !.read = FALSE, !.op = "reset"]
  /\ UNCHANGED <<src, fn, loc, layer, ret, obs, tcVars, voVars>>

\* Lines 164-168: last(); the caller starts a backward traversal.
ValCache_last ==
  /\ src.pc = "ready"
  /\ inter' = Last(inter)
  /\ trav' = [trav EXCEPT !.mode = "bwd", !.out = << >>, !.read = FALSE, !.op = "last"]
  /\ UNCHANGED <<src, fn, loc, layer, ret, obs, tcVars, voVars>>

\* Lines 170-174: finish().
ValCache_finish ==
  /\ src.pc = "ready"
  /\ inter' = Finish(inter)
  /\ trav' = [trav EXCEPT !.mode = "none", !.out = << >>, !.read = FALSE, !.op = "finish"]
  /\ UNCHANGED <<src, fn, loc, layer, ret, obs, tcVars, voVars>>

\* Lines 140-144: operator++ (the model stops MaxOver past the end).
ValCache_inc ==
  /\ src.pc = "ready" /\ inter.c < inter.n + MaxOver
  /\ inter' = Inc(inter)
  /\ trav' = IF trav.mode = "fwd" /\ trav.read
             THEN [trav EXCEPT !.read = FALSE, !.op = "++"]
             ELSE [trav EXCEPT !.mode = "none", !.out = << >>, !.read = FALSE, !.op = "++"]
  /\ UNCHANGED <<src, fn, loc, layer, ret, obs, tcVars, voVars>>

\* Lines 146-150: operator-- (the model stops MaxOver before the start).
ValCache_dec ==
  /\ src.pc = "ready" /\ inter.c > -1 - MaxOver
  /\ inter' = Dec(inter)
  /\ trav' = IF trav.mode = "bwd" /\ trav.read
             THEN [trav EXCEPT !.read = FALSE, !.op = "--"]
             ELSE [trav EXCEPT !.mode = "none", !.out = << >>, !.read = FALSE, !.op = "--"]
  /\ UNCHANGED <<src, fn, loc, layer, ret, obs, tcVars, voVars>>

\* Lines 206-211: index(i), for 0 <= i <= n.
ValCache_index ==
  /\ src.pc = "ready"
  /\ \E p \in 0 .. inter.n : inter' = SetIndex(inter, UInt(p))
  /\ trav' = [trav EXCEPT !.mode = "none", !.out = << >>, !.read = FALSE, !.op = "index"]
  /\ UNCHANGED <<src, fn, loc, layer, ret, obs, tcVars, voVars>>

\* Lines 152-156: operator().
ValCache_valid ==
  /\ src.pc = "ready"
  /\ trav' = [trav EXCEPT !.op = "()", !.ok = Valid(inter)]
  /\ UNCHANGED <<src, inter, fn, loc, layer, ret, obs, tcVars, voVars>>

\* Lines 188-192: val(), called at a valid cursor (its precondition).  A second
\* call at the same position is not part of a traversal.
ValCache_val ==
  /\ src.pc = "ready" /\ Valid(inter)
  /\ trav' = IF trav.mode \in {"fwd", "bwd"} /\ ~trav.read
             THEN [trav EXCEPT !.out = Append(@, inter.r[inter.c + 1]), !.read = TRUE,
                               !.op = "val"]
             ELSE [trav EXCEPT !.mode = "none", !.out = << >>, !.read = FALSE,
                               !.op = "val"]
  /\ UNCHANGED <<src, inter, fn, loc, layer, ret, obs, tcVars, voVars>>

(***************************************************************************)
(* Diagrams.  In a call with m cached values 1 .. m, the view x has        *)
(* initialLubMin 0 and the table slots 0 .. m (value 0 is not cached), the *)
(* view y has initialLubMin 1 and the table slots m + 1 .. 2m.  cardConst  *)
(* only has the view x.                                                    *)
(***************************************************************************)
xmin == 0
ymin == 1
xoff == 0
yoff == inter.s + 1

NumBits == IF fn = "cardConst" THEN inter.s + 1 ELSE 2 * inter.s + 1

Assignments == 0 .. (2 ^ NumBits - 1)

Bit(a, v) == (a \div (2 ^ v)) % 2 = 1

bdd_true == Assignments
bdd_false == {}

\* manager.bddpos(v): the diagram of variable v.
bddpos(v) == {a \in Assignments : Bit(a, v)}

\* manager.ite(g, t, e).
ite(g, t, e) == (g \cap t) \cup (e \ g)

\* x.element(j), y.element(j): the literal of table slot j of the view.
x_element(j) == bddpos(xoff + j)
y_element(j) == bddpos(yoff + j)
x_elementNeg(j) == Assignments \ bddpos(xoff + j)
y_elementNeg(j) == Assignments \ bddpos(yoff + j)

\* Values a read at an invalid cursor may yield: any value of lub(x), or a
\* value that is no slot of the table (inter.s + 1 stands for them; bddpos of
\* it accepts no assignment).
JunkValues == 0 .. (inter.s + 1)
\* Diagrams a read of a layer never written (or outside the array) may yield.
JunkBdds == SUBSET Assignments

JunkValuesHere == IF Valid(inter) THEN {0} ELSE JunkValues

\* layer[j] can be read: it lies in the array and has been written.
LayerOK(j) == j \in DOMAIN layer /\ j \in obs.written
LayerRd(j, junk) == IF LayerOK(j) THEN layer[j] ELSE junk[j]
\* layer[j] = b; a write outside the array does not reach the array.
LayerWr(j, b) == IF j \in DOMAIN layer THEN [layer EXCEPT ![j] = b] ELSE layer

\* An array of k - 1 handles in place of k.
AllocLayer_Short(k) == [j \in 0 .. (k - 2) |-> bdd_false]

\* Region::alloc<bdd>(k): k default-constructed handles.
AllocLayer(k) == [j \in 0 .. (k - 1) |-> bdd_false]

\* obs after a step that reads the cache nr times with the cursor as in ic,
\* reads the layers rd and writes the layers wr.
Observe(ic, nr, rd, wr) ==
  [obs EXCEPT !.reads = @ + nr,
              !.badRead = @ \/ (nr > 0 /\ ~Valid(ic)),
              !.layerFault = @ \/ (\E j \in rd : ~LayerOK(j))
                               \/ (\E j \in wr : j \notin DOMAIN layer),
              !.written = @ \cup (wr \cap DOMAIN layer)]

Return(b) == ret' = [done |-> TRUE, bdd |-> b]

(***************************************************************************)
(* extcardcheck                                                            *)
(***************************************************************************)
\* extcardcheck_window with "and" in place of "or" in the test of line 640.
extcardcheck_window_And ==
  /\ fn = "extcardcheck" /\ loc.pc = "start"
  /\ LET isize == inter.s
         crc   == IF loc.cr > isize THEN isize ELSE loc.cr
     IN  IF loc.cl > isize /\ loc.cl > crc
         THEN /\ Return(bdd_false)
              /\ loc' = [loc EXCEPT !.cr = crc, !.r = isize - 1, !.n = crc + 1,
                                    !.pc = "done"]
         ELSE /\ loc' = [loc EXCEPT !.cr = crc, !.r = isize - 1, !.n = crc + 1,
                                    !.pc = "dispatch"]
              /\ UNCHANGED ret
  /\ UNCHANGED <<fn, inter, layer, obs, tcVars, voVars, vcVars>>

\* Lines 632-642: isize, the clipping of cr, r and n, and the inconsistent
\* window.
extcardcheck_window ==
  /\ fn = "extcardcheck" /\ loc.pc = "start"
  /\ LET isize == inter.s
         crc   == IF loc.cr > isize THEN isize ELSE loc.cr
     IN  IF loc.cl > isize \/ loc.cl > crc
         THEN /\ Return(bdd_false)
              /\ loc' = [loc EXCEPT !.cr = crc, !.r = isize - 1, !.n = crc + 1,
                                    !.pc = "done"]
         ELSE /\ loc' = [loc EXCEPT !.cr = crc, !.r = isize - 1, !.n = crc + 1,
                                    !.pc = "dispatch"]
              /\ UNCHANGED ret
  /\ UNCHANGED <<fn, inter, layer, obs, tcVars, voVars, vcVars>>

\* Lines 644-646, 659-662, 673-684: the choice of the builder.
extcardcheck_dispatch ==
  /\ fn = "extcardcheck" /\ loc.pc = "dispatch"
  /\ LET isize == inter.s
     IN  IF loc.cr = 0
         THEN loc' = [loc EXCEPT !.pc = "empty", !.acc = bdd_true] /\ UNCHANGED ret
         ELSE IF loc.cl = loc.cr
         THEN IF loc.cr = isize
              THEN loc' = [loc EXCEPT !.pc = "full", !.acc = bdd_true] /\ UNCHANGED ret
              ELSE loc' = [loc EXCEPT !.pc = "eq_alloc"] /\ UNCHANGED ret
         ELSE IF loc.cr = isize /\ loc.cl = 0
         THEN loc' = [loc EXCEPT !.pc = "done"] /\ Return(bdd_true)
         ELSE loc' = [loc EXCEPT !.pc = "lq_alloc"] /\ UNCHANGED ret
  /\ UNCHANGED <<fn, inter, layer, obs, tcVars, voVars, vcVars>>

\* Lines 647-656: one iteration of the loop building the "empty" diagram, or
\* its exit.
extcardcheck_empty ==
  /\ fn = "extcardcheck" /\ loc.pc = "empty"
  /\ IF Valid(inter)
     THEN LET v == ReadMin(inter, 0)
          IN  /\ loc' = [loc EXCEPT !.acc =
                           @ \cap (x_elementNeg(v - xmin) \cap y_elementNeg(v - ymin))]
              /\ inter' = Inc(inter)
              /\ obs' = Observe(inter, 1, {}, {})
              /\ UNCHANGED ret
     ELSE /\ Return(loc.acc)
          /\ loc' = [loc EXCEPT !.pc = "done"]
          /\ UNCHANGED <<inter, obs>>
  /\ UNCHANGED <<fn, layer, tcVars, voVars, vcVars>>

\* Lines 663-672: one iteration of the loop building the "full" diagram, or
\* its exit.
extcardcheck_full ==
  /\ fn = "extcardcheck" /\ loc.pc = "full"
  /\ IF Valid(inter)
     THEN LET v == ReadMin(inter, 0)
          IN  /\ loc' = [loc EXCEPT !.acc =
                           @ \cap (x_element(v - xmin) \cap y_element(v - ymin))]
              /\ inter' = Inc(inter)
              /\ obs' = Observe(inter, 1, {}, {})
              /\ UNCHANGED ret
     ELSE /\ Return(loc.acc)
          /\ loc' = [loc EXCEPT !.pc = "done"]
          /\ UNCHANGED <<inter, obs>>
  /\ UNCHANGED <<fn, layer, tcVars, voVars, vcVars>>

(***************************************************************************)
(* extcardeq(home, inter, x, y, c = cr, n, r)                              *)
(***************************************************************************)
\* What the reads of the layers rd may yield where they are not reads of
\* written layers of the array: one diagram for each such read.
JunkBddsFor(rd) == [{j \in rd : ~LayerOK(j)} -> JunkBdds]

\* Lines 418-426: the layer array, layer[0] and the cursor at the last value.
extcardeq_alloc ==
  /\ fn = "extcardcheck" /\ loc.pc = "eq_alloc"
  /\ layer' = [AllocLayer(loc.n) EXCEPT ![0] = bdd_true]
  /\ obs' = [obs EXCEPT !.written = {0}]
  /\ inter' = Last(inter)
  /\ loc' = [loc EXCEPT !.pc = "eq_seed", !.i = 1]
  /\ UNCHANGED <<fn, ret, tcVars, voVars, vcVars>>

\* Lines 427-431: one iteration of the loop "build nodes for lowest layer"
\* (c is cr), or its exit.
extcardeq_seed ==
  /\ fn = "extcardcheck" /\ loc.pc = "eq_seed"
  /\ IF loc.i <= loc.cr
     THEN \E jv \in JunkValuesHere :
            LET k == ReadMin(inter, jv)
            IN  /\ layer' = LayerWr(loc.i, x_element(k - xmin) \cap y_element(k - ymin))
                /\ obs' = Observe(inter, 1, {}, {loc.i})
                /\ loc' = [loc EXCEPT !.i = @ + 1]
     ELSE /\ loc' = [loc EXCEPT !.pc = "eq_connect", !.i = 1]
          /\ UNCHANGED <<layer, obs>>
  /\ UNCHANGED <<fn, inter, ret, tcVars, voVars, vcVars>>

\* Lines 433-438: one iteration of the loop "connect nodes in lowest layer", or
\* its exit, which puts the cursor at the last value.
extcardeq_connect ==
  /\ fn = "extcardcheck" /\ loc.pc = "eq_connect"
  /\ IF loc.i < loc.n
     THEN /\ \E jb \in JunkBddsFor({loc.i, loc.i - 1}) :
               layer' = LayerWr(loc.i, ite(LayerRd(loc.i, jb), LayerRd(loc.i - 1, jb),
                                           bdd_false))
          /\ obs' = Observe(inter, 0, {loc.i, loc.i - 1}, {loc.i})
          /\ loc' = [loc EXCEPT !.i = @ + 1]
          /\ UNCHANGED inter
     ELSE /\ inter' = Last(inter)
          /\ loc' = [loc EXCEPT !.pc = "eq_outer"]
          /\ UNCHANGED <<layer, obs>>
  /\ UNCHANGED <<fn, ret, tcVars, voVars, vcVars>>

\* Lines 441-442 and 459: the test of the outer loop; pos saves the cursor.
extcardeq_outer ==
  /\ fn = "extcardcheck" /\ loc.pc = "eq_outer"
  /\ IF Valid(inter)
     THEN /\ loc' = [loc EXCEPT !.pc = "eq_inner", !.pos = Index(inter), !.i = 0]
          /\ UNCHANGED <<ret, obs>>
     ELSE /\ \E jb \in JunkBddsFor({loc.n - 1}) : Return(LayerRd(loc.n - 1, jb))
          /\ obs' = Observe(inter, 0, {loc.n - 1}, {})
          /\ loc' = [loc EXCEPT !.pc = "done"]
  /\ UNCHANGED <<fn, inter, layer, tcVars, voVars, vcVars>>

\* Lines 443-455: one iteration of the inner loop over the layers, or its exit.
extcardeq_inner ==
  /\ fn = "extcardcheck" /\ loc.pc = "eq_inner"
  /\ IF loc.i < loc.n
     THEN \E jv \in JunkValuesHere :
          \E jb \in JunkBddsFor({loc.i} \cup (IF loc.i = 0 THEN {} ELSE {loc.i - 1})) :
            LET col  == ReadMin(inter, jv)
                t    == IF loc.i = 0 THEN bdd_false ELSE LayerRd(loc.i - 1, jb)
                both == ite(y_element(col - ymin), t, LayerRd(loc.i, jb))
                ic   == Dec(inter)
            IN  /\ layer' = LayerWr(loc.i, ite(x_element(col - xmin), both,
                                               LayerRd(loc.i, jb)))
                /\ obs' = Observe(inter, 1, {loc.i} \cup (IF loc.i = 0 THEN {} ELSE {loc.i - 1}),
                                  {loc.i})
                /\ inter' = ic
                /\ loc' = IF ~Valid(ic) THEN [loc EXCEPT !.pc = "eq_after"]
                                        ELSE [loc EXCEPT !.i = @ + 1]
     ELSE /\ loc' = [loc EXCEPT !.pc = "eq_after"]
          /\ UNCHANGED <<layer, obs, inter>>
  /\ UNCHANGED <<fn, ret, tcVars, voVars, vcVars>>

\* Lines 456-457, the --inter of line 441, and 459: the end of an outer
\* iteration.
extcardeq_after ==
  /\ fn = "extcardcheck" /\ loc.pc = "eq_after"
  /\ IF ~Valid(inter)
     THEN /\ \E jb \in JunkBddsFor({loc.n - 1}) : Return(LayerRd(loc.n - 1, jb))
          /\ obs' = Observe(inter, 0, {loc.n - 1}, {})
          /\ loc' = [loc EXCEPT !.pc = "done"]
          /\ UNCHANGED inter
     ELSE /\ inter' = Dec(SetIndex(inter, loc.pos))
          /\ loc' = [loc EXCEPT !.pc = "eq_outer"]
          /\ UNCHANGED <<ret, obs>>
  /\ UNCHANGED <<fn, layer, tcVars, voVars, vcVars>>

(***************************************************************************)
(* extcardlqgq and cardConst.  cardConst repeats the code of extcardlqgq   *)
(* with the literal "x contains col" in place of "x and y contain col":    *)
(* the steps below take the literal's if-then-else as a parameter.         *)
(***************************************************************************)
\* XYIte without the test of y: ite(x, t, e).
XYIte_IgnoreY(col, t, e) == ite(x_element(col - xmin), t, e)

\* Lines 484-485, 503-504, 539-540, 564-565: ite(x, ite(y, t, e), e).
XYIte(col, t, e) ==
  ite(x_element(col - xmin), ite(y_element(col - ymin), t, e), e)

\* Lines 585-586: ite(y & x, t, e).
XYAndIte(col, t, e) == ite(y_element(col - ymin) \cap x_element(col - xmin), t, e)

\* Lines 713, 729, 765, 789, 808: ite(bddpos(xoff + col - xmin), t, e).
XIte(col, t, e) == ite(bddpos(xoff + col - xmin), t, e)

\* The if-then-else on the literal of col in the seed, the first sweep, the
\* case cr = r and the connection layer.
LitIte(col, t, e) == IF fn = "cardConst" THEN XIte(col, t, e) ELSE XYIte(col, t, e)

\* The if-then-else on the literal of col in the last sweep.
UpIte(col, t, e) == IF fn = "cardConst" THEN XIte(col, t, e) ELSE XYAndIte(col, t, e)

\* Lines 470 and 473 (701 and 704): the layer array with layer[n - cl - 1]
\* set; a write outside the array does not reach the array.
Lq_alloc_layer ==
  LET top == loc.n - loc.cl - 1
      arr == AllocLayer(loc.n)
  IN  IF top \in DOMAIN arr THEN [arr EXCEPT ![top] = bdd_true] ELSE arr

\* obs after lines 470-477 (701-708): the write of layer[n - cl - 1] and the
\* read of the cache after inter.last().
Lq_alloc_obs ==
  LET top == loc.n - loc.cl - 1
      arr == AllocLayer(loc.n)
  IN  [obs EXCEPT !.written = {top} \cap DOMAIN arr,
                  !.layerFault = @ \/ top \notin DOMAIN arr,
                  !.reads = @ + 1,
                  !.badRead = @ \/ ~Valid(Last(inter))]

\* Lines 469-479 (700-708): the layer array, layer[n - cl - 1], the cursor at
\* the last value and the first read of k.
Lq_alloc ==
  /\ loc.pc = "lq_alloc"
  /\ layer' = Lq_alloc_layer
  /\ obs' = Lq_alloc_obs
  /\ inter' = Last(inter)
  /\ loc' = [loc EXCEPT !.pc = "lq_seed", !.i = loc.n - loc.cl]
  /\ UNCHANGED <<fn, ret, tcVars, voVars, vcVars>>

\* Lines 481-490 (710-719): one iteration of the loop "build nodes for lowest
\* layer", or its exit: inter.last(); --inter.
Lq_seed ==
  /\ loc.pc = "lq_seed"
  /\ IF loc.i < loc.n
     THEN \E jv \in JunkValuesHere : \E jb \in JunkBddsFor({loc.i - 1}) :
            LET k == ReadMin(inter, jv)
            IN  /\ layer' = LayerWr(loc.i, LitIte(k, LayerRd(loc.i - 1, jb), bdd_false))
                /\ obs' = Observe(inter, 1, {loc.i - 1}, {loc.i})
                /\ inter' = Dec(inter)
                /\ loc' = [loc EXCEPT !.i = @ + 1]
     ELSE /\ inter' = Dec(Last(inter))
          /\ loc' = [loc EXCEPT !.pc = "lq_low_outer"]
          /\ UNCHANGED <<layer, obs>>
  /\ UNCHANGED <<fn, ret, tcVars, voVars, vcVars>>

\* Lines 497-498 (721-723): the test of the first sweep; pos saves the cursor.
Lq_low_outer ==
  /\ loc.pc = "lq_low_outer"
  /\ IF Valid(inter)
     THEN loc' = [loc EXCEPT !.pc = "lq_low_inner", !.pos = Index(inter),
                             !.i = loc.n - loc.cl]
     ELSE loc' = [loc EXCEPT !.pc = "lq_branch"]
  /\ UNCHANGED <<fn, inter, layer, ret, obs, tcVars, voVars, vcVars>>

\* Lines 500-509 (726-735): one iteration of the inner loop of the first
\* sweep, or its exit.
Lq_low_inner ==
  /\ loc.pc = "lq_low_inner"
  /\ IF loc.i < loc.n
     THEN \E jv \in JunkValuesHere : \E jb \in JunkBddsFor({loc.i - 1, loc.i}) :
            LET col == ReadMin(inter, jv)
                t   == LayerRd(loc.i - 1, jb)
                ic  == Dec(inter)
            IN  /\ layer' = LayerWr(loc.i, LitIte(col, t, LayerRd(loc.i, jb)))
                /\ obs' = Observe(inter, 1, {loc.i - 1, loc.i}, {loc.i})
                /\ IF ToInt(Index(ic)) + 1 < loc.r + 1 - loc.cr
                   THEN /\ inter' = Finish(ic)
                        /\ loc' = [loc EXCEPT !.pc = "lq_low_after"]
                   ELSE /\ inter' = ic
                        /\ loc' = [loc EXCEPT !.i = @ + 1]
     ELSE /\ loc' = [loc EXCEPT !.pc = "lq_low_after"]
          /\ UNCHANGED <<layer, obs, inter>>
  /\ UNCHANGED <<fn, ret, tcVars, voVars, vcVars>>

\* Lq_low_after without the restore inter.index(pos) of line 511.
Lq_low_after_NoRestore ==
  /\ loc.pc = "lq_low_after"
  /\ IF ~Valid(inter)
     THEN loc' = [loc EXCEPT !.pc = "lq_branch"] /\ UNCHANGED inter
     ELSE /\ inter' = Dec(inter)
          /\ loc' = [loc EXCEPT !.pc = "lq_low_outer"]
  /\ UNCHANGED <<fn, layer, ret, obs, tcVars, voVars, vcVars>>

\* Lines 510-511 and the --inter of line 497 (736-737, 721): the end of an
\* outer iteration of the first sweep.
Lq_low_after ==
  /\ loc.pc = "lq_low_after"
  /\ IF ~Valid(inter)
     THEN loc' = [loc EXCEPT !.pc = "lq_branch"] /\ UNCHANGED inter
     ELSE /\ inter' = Dec(SetIndex(inter, loc.pos))
          /\ loc' = [loc EXCEPT !.pc = "lq_low_outer"]
  /\ UNCHANGED <<fn, layer, ret, obs, tcVars, voVars, vcVars>>

\* Lines 514-527 and 548-552 (740-753, 773-777): the three cases cr = r + 1,
\* cr = r and cr < r.
Lq_branch ==
  /\ loc.pc = "lq_branch"
  /\ IF loc.cr = loc.r + 1
     THEN /\ \E jb \in JunkBddsFor({loc.n - 1}) : Return(LayerRd(loc.n - 1, jb))
          /\ obs' = Observe(inter, 0, {loc.n - 1}, {})
          /\ loc' = [loc EXCEPT !.pc = "done"]
          /\ UNCHANGED inter
     ELSE IF loc.cr = loc.r
     THEN /\ inter' = Last(inter)
          /\ obs' = Observe(Last(inter), 1, {}, {})
          /\ loc' = [loc EXCEPT !.pc = "lq_single", !.f = bdd_true, !.i = 0]
          /\ UNCHANGED ret
     ELSE /\ inter' = Last(inter)
          /\ loc' = [loc EXCEPT !.pc = "lq_conn", !.f = bdd_true, !.i = 0]
          /\ UNCHANGED <<ret, obs>>
  /\ UNCHANGED <<fn, layer, tcVars, voVars, vcVars>>

\* Lines 528-543 (754-768): one iteration of the loop of the case cr = r, or
\* its exit.
Lq_single ==
  /\ loc.pc = "lq_single"
  /\ IF loc.i < loc.n
     THEN LET con == loc.i # 0 /\ loc.i > loc.n - loc.cl - 1
              rd  == IF loc.i = 0 THEN {}
                     ELSE IF con THEN {loc.i - 1, loc.i} ELSE {loc.i - 1}
          IN  \E jv \in JunkValuesHere : \E jb \in JunkBddsFor(rd) :
                LET col == ReadMin(inter, jv)
                    t   == IF loc.i = 0 THEN bdd_false ELSE LayerRd(loc.i - 1, jb)
                    f   == IF loc.i = 0 THEN bdd_true
                           ELSE IF con THEN LayerRd(loc.i, jb) ELSE loc.f
                    ic  == Dec(inter)
                IN  /\ layer' = LayerWr(loc.i, LitIte(col, t, f))
                    /\ inter' = ic
                    /\ obs' = Observe(inter, 1, rd, {loc.i})
                    /\ loc' = IF ~Valid(ic)
                              THEN [loc EXCEPT !.f = f, !.pc = "lq_single_end"]
                              ELSE [loc EXCEPT !.f = f, !.i = @ + 1]
     ELSE /\ loc' = [loc EXCEPT !.pc = "lq_single_end"]
          /\ UNCHANGED <<layer, inter, obs>>
  /\ UNCHANGED <<fn, ret, tcVars, voVars, vcVars>>

\* Line 545 (770): return layer[n - 1].
Lq_single_end ==
  /\ loc.pc = "lq_single_end"
  /\ \E jb \in JunkBddsFor({loc.n - 1}) : Return(LayerRd(loc.n - 1, jb))
  /\ obs' = Observe(inter, 0, {loc.n - 1}, {})
  /\ loc' = [loc EXCEPT !.pc = "done"]
  /\ UNCHANGED <<fn, inter, layer, tcVars, voVars, vcVars>>

\* Lines 553-568 (778-792): one iteration of the loop of the connection layer,
\* or its exit.
Lq_conn ==
  /\ loc.pc = "lq_conn"
  /\ IF loc.i < loc.n
     THEN LET con == loc.i # 0 /\ loc.i > loc.n - loc.cl - 1 /\ loc.cl > 0
              rd  == IF loc.i = 0 THEN {}
                     ELSE IF con THEN {loc.i - 1, loc.i} ELSE {loc.i - 1}
          IN  \E jv \in JunkValuesHere : \E jb \in JunkBddsFor(rd) :
                LET col == ReadMin(inter, jv)
                    t   == IF loc.i = 0 THEN bdd_false ELSE LayerRd(loc.i - 1, jb)
                    f   == IF con THEN LayerRd(loc.i, jb) ELSE loc.f
                    ic  == Dec(inter)
                IN  /\ layer' = LayerWr(loc.i, LitIte(col, t, f))
                    /\ inter' = ic
                    /\ obs' = Observe(inter, 1, rd, {loc.i})
                    /\ loc' = IF ~Valid(ic)
                              THEN [loc EXCEPT !.f = f, !.pc = "lq_conn_end"]
                              ELSE [loc EXCEPT !.f = f, !.i = @ + 1]
     ELSE /\ loc' = [loc EXCEPT !.pc = "lq_conn_end"]
          /\ UNCHANGED <<layer, inter, obs>>
  /\ UNCHANGED <<fn, ret, tcVars, voVars, vcVars>>

\* Lines 572-573 (796-797): inter.last(); --inter.
Lq_conn_end ==
  /\ loc.pc = "lq_conn_end"
  /\ inter' = Dec(Last(inter))
  /\ loc' = [loc EXCEPT !.pc = "lq_up_outer"]
  /\ UNCHANGED <<fn, layer, ret, obs, tcVars, voVars, vcVars>>

\* Lines 574-575 and 599 (798-799, 821): the test of the last sweep; pos saves
\* the cursor.
Lq_up_outer ==
  /\ loc.pc = "lq_up_outer"
  /\ IF Valid(inter)
     THEN /\ loc' = [loc EXCEPT !.pc = "lq_up_inner", !.pos = Index(inter), !.i = 0]
          /\ UNCHANGED <<ret, obs>>
     ELSE /\ \E jb \in JunkBddsFor({loc.n - 1}) : Return(LayerRd(loc.n - 1, jb))
          /\ obs' = Observe(inter, 0, {loc.n - 1}, {})
          /\ loc' = [loc EXCEPT !.pc = "done"]
  /\ UNCHANGED <<fn, inter, layer, tcVars, voVars, vcVars>>

\* Lines 576-592 (800-814): one iteration of the inner loop of the last sweep,
\* or its exit.
Lq_up_inner ==
  /\ loc.pc = "lq_up_inner"
  /\ IF loc.i < loc.n
     THEN LET rd == {loc.i} \cup (IF loc.i = 0 THEN {} ELSE {loc.i - 1})
          IN  \E jv \in JunkValuesHere : \E jb \in JunkBddsFor(rd) :
                LET col == ReadMin(inter, jv)
                    t   == IF loc.i = 0 THEN bdd_false ELSE LayerRd(loc.i - 1, jb)
                    ic  == Dec(inter)
                IN  /\ layer' = LayerWr(loc.i, UpIte(col, t, LayerRd(loc.i, jb)))
                    /\ inter' = ic
                    /\ obs' = Observe(inter, 1, rd, {loc.i})
                    /\ loc' = IF ~Valid(ic) THEN [loc EXCEPT !.pc = "lq_up_after"]
                                            ELSE [loc EXCEPT !.i = @ + 1]
     ELSE /\ loc' = [loc EXCEPT !.pc = "lq_up_after"]
          /\ UNCHANGED <<layer, inter, obs>>
  /\ UNCHANGED <<fn, ret, tcVars, voVars, vcVars>>

\* Lines 593-596, the --inter of line 574, and 599 (815-818, 798, 821): the
\* end of an outer iteration of the last sweep.
Lq_up_after ==
  /\ loc.pc = "lq_up_after"
  /\ IF ~Valid(inter)
     THEN /\ \E jb \in JunkBddsFor({loc.n - 1}) : Return(LayerRd(loc.n - 1, jb))
          /\ obs' = Observe(inter, 0, {loc.n - 1}, {})
          /\ loc' = [loc EXCEPT !.pc = "done"]
          /\ UNCHANGED inter
     ELSE /\ inter' = Dec(SetIndex(inter, loc.pos))
          /\ loc' = [loc EXCEPT !.pc = "lq_up_outer"]
          /\ UNCHANGED <<ret, obs>>
  /\ UNCHANGED <<fn, layer, tcVars, voVars, vcVars>>

\* The next step of the builder calls inter.min().
ReadsCache ==
  \/ loc.pc = "lq_alloc"
  \/ loc.pc = "lq_branch" /\ loc.cr # loc.r + 1 /\ loc.cr = loc.r
  \/ loc.pc = "eq_seed" /\ loc.i <= loc.cr
  \/ /\ loc.pc \in {"eq_inner", "lq_seed", "lq_low_inner", "lq_single", "lq_conn",
                    "lq_up_inner"}
     /\ loc.i < loc.n

\* The cursor at that call: lq_alloc and lq_branch call inter.last() first.
CursorAtRead == IF loc.pc \in {"lq_alloc", "lq_branch"} THEN Last(inter) ELSE inter

\* Lines 176-180: min() at an invalid cursor reads r[c] outside the array,
\* unchecked.  The read either yields some value and the run goes on
\* (ReadMin), or the run is stopped at the read (an address outside the
\* process's memory, a build that checks its memory accesses) and the call
\* never returns.  What the step has done before the read stays done: the
\* allocation, the write of layer[n - cl - 1] and inter.last() at lines
\* 470-475 (701-706), and inter.last() at line 521 (747).
ValCache_min_abort ==
  /\ fn \in {"extcardcheck", "cardConst"}
  /\ ReadsCache /\ ~Valid(CursorAtRead)
  /\ loc' = [loc EXCEPT !.pc = "aborted"]
  /\ inter' = CursorAtRead
  /\ IF loc.pc = "lq_alloc"
     THEN /\ layer' = Lq_alloc_layer
          /\ obs' = Lq_alloc_obs
     ELSE /\ obs' = [obs EXCEPT !.reads = @ + 1, !.badRead = TRUE]
          /\ UNCHANGED layer
  /\ UNCHANGED <<fn, ret, tcVars, voVars, vcVars>>

\* extcardlqgq: the steps with the literal "x and y contain col".
extcardlqgq_alloc      == fn = "extcardcheck" /\ Lq_alloc
extcardlqgq_seed       == fn = "extcardcheck" /\ Lq_seed
extcardlqgq_low_outer  == fn = "extcardcheck" /\ Lq_low_outer
extcardlqgq_low_inner  == fn = "extcardcheck" /\ Lq_low_inner
extcardlqgq_low_after  == fn = "extcardcheck" /\ Lq_low_after
extcardlqgq_branch     == fn = "extcardcheck" /\ Lq_branch
extcardlqgq_single     == fn = "extcardcheck" /\ Lq_single
extcardlqgq_single_end == fn = "extcardcheck" /\ Lq_single_end
extcardlqgq_conn       == fn = "extcardcheck" /\ Lq_conn
extcardlqgq_conn_end   == fn = "extcardcheck" /\ Lq_conn_end
extcardlqgq_up_outer   == fn = "extcardcheck" /\ Lq_up_outer
extcardlqgq_up_inner   == fn = "extcardcheck" /\ Lq_up_inner
extcardlqgq_up_after   == fn = "extcardcheck" /\ Lq_up_after

\* Lines 694-698: cardConst caches the values of the set and computes r and n.
cardConst_start ==
  /\ fn = "cardConst" /\ loc.pc = "start"
  /\ loc' = [loc EXCEPT !.r = inter.s - 1, !.n = loc.cr + 1, !.pc = "lq_alloc"]
  /\ UNCHANGED <<fn, inter, layer, ret, obs, tcVars, voVars, vcVars>>

\* cardConst: the steps with the literal "x contains col".
cardConst_alloc      == fn = "cardConst" /\ Lq_alloc
cardConst_seed       == fn = "cardConst" /\ Lq_seed
cardConst_low_outer  == fn = "cardConst" /\ Lq_low_outer
cardConst_low_inner  == fn = "cardConst" /\ Lq_low_inner
cardConst_low_after  == fn = "cardConst" /\ Lq_low_after
cardConst_branch     == fn = "cardConst" /\ Lq_branch
cardConst_single     == fn = "cardConst" /\ Lq_single
cardConst_single_end == fn = "cardConst" /\ Lq_single_end
cardConst_conn       == fn = "cardConst" /\ Lq_conn
cardConst_conn_end   == fn = "cardConst" /\ Lq_conn_end
cardConst_up_outer   == fn = "cardConst" /\ Lq_up_outer
cardConst_up_inner   == fn = "cardConst" /\ Lq_up_inner
cardConst_up_after   == fn = "cardConst" /\ Lq_up_after

(***************************************************************************)
(* Specifications: one per function of the file.  The variables of the     *)
(* functions that are not running keep their idle values.                  *)
(***************************************************************************)
IdleTC ==
  tc = [glb |-> {}, lub |-> {}, cardMin |-> 0, cardMax |-> 0, signal |-> "idle"]

IdleVO ==
  /\ views = << >>
  /\ yviews = << >>
  /\ var_in_tab = 0
  /\ vo = [pc |-> "idle", min_offset |-> 0, max_width |-> 0, hls_order |-> << >>,
           c |-> 0, i |-> 0, f |-> 0]
  /\ order = << >>

IdleCard ==
  /\ fn = "idle"
  /\ inter = [r |-> << >>, c |-> 0, n |-> 0, s |-> 0]
  /\ loc = [pc |-> "idle", cl |-> 0, cr |-> 0, n |-> 0, r |-> 0, i |-> 0, pos |-> UInt(0),
            f |-> {}, acc |-> {}]
  /\ layer = << >>
  /\ ret = [done |-> FALSE]
  /\ obs = [written |-> {}, reads |-> 0, badRead |-> FALSE, layerFault |-> FALSE]

IdleVC ==
  /\ src = [pc |-> "idle", all |-> << >>, i |-> 0, d |-> << >>]
  /\ trav = [mode |-> "none", out |-> << >>, read |-> FALSE, op |-> "none", ok |-> FALSE]

\* testConsistency is called with any IntSets and any cardinalities.
InitTC ==
  /\ \E glb \in IntSets, lub \in IntSets, cardMin \in CardValues, cardMax \in CardValues :
       tc = [glb |-> glb, lub |-> lub, cardMin |-> cardMin, cardMax |-> cardMax,
             signal |-> "none"]
  /\ IdleVO
  /\ IdleCard
  /\ IdleVC

NextTC == testConsistency

SpecTC == InitTC /\ [][NextTC]_vars

\* variableorder is called with a non-empty view array; line 284 and 285 read x[0].
InitVO ==
  /\ \E V \in 1 .. MaxSlots : \E x \in ViewArrays(V) :
       /\ var_in_tab = V
       /\ views = x
       /\ yviews = << >>
       /\ vo = [pc |-> "scan", min_offset |-> x[1].offset,
                max_width |-> x[1].tableWidth,
                hls_order |-> [p \in 0 .. (V - 1) |-> Unwritten],
                c |-> 0, i |-> 0, f |-> 0]
       /\ order = << >>
  /\ IdleTC
  /\ IdleCard
  /\ IdleVC

NextVO ==
  \/ variableorder_scan
  \/ variableorder_below
  \/ variableorder_scope
  \/ variableorder_rest
  \/ variableorder_setorder

SpecVO == InitVO /\ [][NextVO]_vars

\* The two-scope variableorder is called with a non-empty array x and an
\* array y; lines 332 and 333 read x[0].
InitVO2 ==
  /\ \E V \in 1 .. MaxSlots2 : \E xy \in ViewArrays2(V) :
       /\ var_in_tab = V
       /\ views = xy[1]
       /\ yviews = xy[2]
       /\ vo = [pc |-> "scan2", min_offset |-> xy[1][1].offset,
                max_width |-> xy[1][1].tableWidth,
                hls_order |-> [p \in 0 .. (V - 1) |-> Unwritten],
                c |-> 0, i |-> 0, f |-> 0]
       /\ order = << >>
  /\ IdleTC
  /\ IdleCard
  /\ IdleVC

NextVO2 ==
  \/ variableorder2_scan
  \/ variableorder2_below
  \/ variableorder2_scope_x
  \/ variableorder2_scope_y
  \/ variableorder2_overflow
  \/ variableorder2_rest
  \/ variableorder2_setorder

SpecVO2 == InitVO2 /\ [][NextVO2]_vars

\* extcardcheck is called with two views whose common values are 1 .. m and
\* any unsigned cl and cr; cardConst with the set 1 .. m and 0 <= cl <= cr <= m.
\* The cache inter is constructed (lines 627-630, 695) with the cursor at 0.
InitCard ==
  /\ \E who \in {"extcardcheck", "cardConst"}, m \in 0 .. MaxM :
     \E a \in 0 .. (m + 1), b \in 0 .. (m + 1) :
       /\ who = "cardConst" => (a <= b /\ b <= m)
       /\ fn = who
       /\ inter = ValCache_init(m)
       /\ loc = [pc |-> "start", cl |-> a, cr |-> b, n |-> 0, r |-> 0, i |-> 0,
                 pos |-> UInt(0), f |-> {}, acc |-> {}]
  /\ layer = << >>
  /\ ret = [done |-> FALSE]
  /\ obs = [written |-> {}, reads |-> 0, badRead |-> FALSE, layerFault |-> FALSE]
  /\ IdleTC
  /\ IdleVO
  /\ IdleVC

NextCard ==
  \/ extcardcheck_window
  \/ extcardcheck_dispatch
  \/ extcardcheck_empty
  \/ extcardcheck_full
  \/ extcardeq_alloc
  \/ extcardeq_seed
  \/ extcardeq_connect
  \/ extcardeq_outer
  \/ extcardeq_inner
  \/ extcardeq_after
  \/ extcardlqgq_alloc
  \/ extcardlqgq_seed
  \/ extcardlqgq_low_outer
  \/ extcardlqgq_low_inner
  \/ extcardlqgq_low_after
  \/ extcardlqgq_branch
  \/ extcardlqgq_single
  \/ extcardlqgq_single_end
  \/ extcardlqgq_conn
  \/ extcardlqgq_conn_end
  \/ extcardlqgq_up_outer
  \/ extcardlqgq_up_inner
  \/ extcardlqgq_up_after
  \/ cardConst_start
  \/ cardConst_alloc
  \/ cardConst_seed
  \/ cardConst_low_outer
  \/ cardConst_low_inner
  \/ cardConst_low_after
  \/ cardConst_branch
  \/ cardConst_single
  \/ cardConst_single_end
  \/ cardConst_conn
  \/ cardConst_conn_end
  \/ cardConst_up_outer
  \/ cardConst_up_inner
  \/ cardConst_up_after
  \/ ValCache_min_abort

SpecCard == InitCard /\ [][NextCard]_vars

\* A call runs to completion: the builders are sequential code without
\* suspension points, so a step that can be taken is taken.
LiveCard == SpecCard /\ WF_vars(NextCard)

\* A ValCache is initialised from a source of distinct increasing values; the
\* state is that of init after line 119 (j = 0, s = 0).
InitCache ==
  /\ \E q \in Sources : src = [pc |-> "drain", all |-> q, i |-> 0, d |-> << >>]
  /\ trav = [mode |-> "none", out |-> << >>, read |-> FALSE, op |-> "none", ok |-> FALSE]
  /\ IdleTC
  /\ IdleVO
  /\ IdleCard

NextCache ==
  \/ ValCache_drain
  \/ ValCache_build
  \/ ValCache_reset
  \/ ValCache_last
  \/ ValCache_finish
  \/ ValCache_inc
  \/ ValCache_dec
  \/ ValCache_index
  \/ ValCache_valid
  \/ ValCache_val

SpecCache == InitCache /\ [][NextCache]_vars

(***************************************************************************)
(* Claims about testConsistency                                            *)
(***************************************************************************)
TCReturned == tc.signal \notin {"none", "idle"}

\* A non-empty range lies within the global value limits.
WithinLimits(S) == Min(S) >= SetLimitsMin /\ Max(S) <= SetLimitsMax

\* [min, max] of g is contained in [min, max] of l.
ContainedIn(g, l) == Min(g) >= Min(l) /\ Max(g) <= Max(l)

C6Conditions ==
  /\ \/ tc.glb = {}
     \/ /\ tc.lub # {}
        /\ Min(tc.glb) <= Max(tc.glb)
        /\ WithinLimits(tc.glb)
        /\ ContainedIn(tc.glb, tc.lub)
  /\ \/ tc.lub = {}
     \/ WithinLimits(tc.lub) /\ Min(tc.lub) <= Max(tc.lub)
  /\ 0 <= tc.cardMin /\ tc.cardMin <= tc.cardMax /\ tc.cardMax <= SetLimitsCard

\* C6: testConsistency signals no error if and only if required is empty or
\* (allowed non-empty, required ordered, within the limits and contained in
\* allowed), allowed is empty or (within the limits and ordered), and
\* 0 <= cardMin <= cardMax <= Limits::card.
Thm_C6 == TCReturned => ((tc.signal = "ok") <=> C6Conditions)

Wit_C6 ==
  /\ tc.signal = "ok"
  /\ tc.glb = 0 .. 1 /\ tc.lub = -1 .. 1
  /\ tc.cardMin = 1 /\ tc.cardMax = 3

C7Case == TCReturned /\ tc.glb # {} /\ tc.lub # {} /\ Min(tc.glb) <= Max(tc.glb)

\* C7 as stated: with required and allowed non-empty, a bound of either range
\* outside the limits signals OutOfRangeDomain; otherwise required not
\* contained in allowed signals FailedDomain.
Orig_C7 ==
  C7Case =>
    IF ~WithinLimits(tc.glb) \/ ~WithinLimits(tc.lub)
    THEN tc.signal = "OutOfRangeDomain"
    ELSE (~ContainedIn(tc.glb, tc.lub) => tc.signal = "FailedDomain")

\* C7 amended: a bound of required outside the limits signals
\* OutOfRangeDomain; otherwise required not contained in allowed signals
\* FailedDomain, also when allowed lies outside the limits; otherwise a bound
\* of allowed outside the limits signals OutOfRangeDomain.
Thm_C7 ==
  C7Case =>
    IF ~WithinLimits(tc.glb) THEN tc.signal = "OutOfRangeDomain"
    ELSE IF ~ContainedIn(tc.glb, tc.lub) THEN tc.signal = "FailedDomain"
    ELSE (~WithinLimits(tc.lub) => tc.signal = "OutOfRangeDomain")

Wit_C7 ==
  /\ C7Case
  /\ WithinLimits(tc.glb) /\ ~WithinLimits(tc.lub) /\ ~ContainedIn(tc.glb, tc.lub)
  /\ tc.signal = "FailedDomain"

RangeChecksPass ==
  /\ \/ tc.glb = {}
     \/ tc.lub # {} /\ WithinLimits(tc.glb) /\ ContainedIn(tc.glb, tc.lub)
  /\ tc.lub = {} \/ WithinLimits(tc.lub)

\* C8: when the range checks pass, cardMax < 0 signals FailedDomain; otherwise
\* cardMax above the cardinality limit signals OutOfRangeCardinality whatever
\* cardMin is; otherwise cardMin < 0 or cardMin > cardMax signals FailedDomain;
\* the one signal raised is the first violated condition in this order.
Thm_C8 ==
  (TCReturned /\ RangeChecksPass) =>
    tc.signal = IF tc.cardMax < 0 THEN "FailedDomain"
                ELSE IF tc.cardMax > SetLimitsCard THEN "OutOfRangeCardinality"
                ELSE IF tc.cardMin < 0 \/ tc.cardMin > tc.cardMax THEN "FailedDomain"
                ELSE "ok"

Wit_C8 ==
  /\ TCReturned /\ RangeChecksPass /\ tc.glb # {}
  /\ tc.cardMax > SetLimitsCard /\ tc.cardMin > tc.cardMax
  /\ tc.signal = "OutOfRangeCardinality"

(***************************************************************************)
(* Claims about variableorder                                              *)
(***************************************************************************)
C9Views == <<[offset |-> 0, tableWidth |-> 2], [offset |-> 3, tableWidth |-> 2]>>

C9Order == [p \in 0 .. 4 |-> IF p = 0 THEN 0 ELSE IF p = 1 THEN 3
                              ELSE IF p = 2 THEN 1 ELSE IF p = 3 THEN 4 ELSE 2]

\* C9: for two views with offsets 0 and 3, each of tableWidth 2, and 5
\* allocated slots, the installed order is [0,3,1,4,2], a permutation of the
\* 5 slots.
Orig_C9 ==
  (vo.pc = "done" /\ var_in_tab = 5 /\ views = C9Views) =>
    /\ order = C9Order
    /\ {order[p] : p \in DOMAIN order} = 0 .. 4

MinOffset == Min({views[v].offset : v \in DOMAIN views})

\* Number of views that have a slot in column f.
ColumnSize(f) == Cardinality({v \in DOMAIN views : views[v].tableWidth > f})

RECURSIVE ColumnsBefore(_)
ColumnsBefore(f) == IF f = 0 THEN 0 ELSE ColumnsBefore(f - 1) + ColumnSize(f - 1)

\* Position of slot offset + f of the v-th view in the order.
PositionOf(v, f) ==
  MinOffset + ColumnsBefore(f)
    + Cardinality({u \in 1 .. (v - 1) : views[u].tableWidth > f})

MaxWidth == Max({views[v].tableWidth : v \in DOMAIN views})

\* C10: the installed order holds (1) i at every position i below the minimum
\* offset, (2) column by column and, within a column, in collection order, the
\* slot offset + f of every view whose tableWidth exceeds f, (3) i at every
\* remaining position i up to var_in_tab - 1.
Thm_C10 ==
  vo.pc = "done" =>
    /\ DOMAIN order = 0 .. (var_in_tab - 1)
    /\ \A p \in 0 .. (MinOffset - 1) : order[p] = p
    /\ \A v \in DOMAIN views : \A f \in 0 .. (views[v].tableWidth - 1) :
         order[PositionOf(v, f)] = views[v].offset + f
    /\ \A p \in (MinOffset + ColumnsBefore(MaxWidth)) .. (var_in_tab - 1) :
         order[p] = p

Wit_C10 ==
  /\ vo.pc = "done"
  /\ Len(views) = 2
  /\ views[1].tableWidth < views[2].tableWidth
  /\ views[1].offset > views[2].offset
  /\ MinOffset > 0
  /\ MinOffset + ColumnsBefore(MaxWidth) < var_in_tab

(***************************************************************************)
(* Claims about the cardinality builders                                   *)
(***************************************************************************)
\* The cached values: 1 .. m.
Cached == {inter.r[p] : p \in DOMAIN inter.r}

\* Number of cached values k for which the literal of k is true in
\* assignment a: "x contains k and y contains k" for extcardcheck,
\* "x contains k" for cardConst.
LiteralTrue(a, k) ==
  IF fn = "cardConst" THEN Bit(a, xoff + k - xmin)
  ELSE Bit(a, xoff + k - xmin) /\ Bit(a, yoff + k - ymin)

Count(a) == Cardinality({k \in Cached : LiteralTrue(a, k)})

\* The assignments with between lo and hi true literals.
Window(lo, hi) == {a \in Assignments : lo <= Count(a) /\ Count(a) <= hi}

Returned == ret.done

\* C1: extcardcheck with a window cl < cr (cr clipped to the number m of
\* common values), other than [0, m], returns the diagram that accepts an
\* assignment exactly when the number of common values contained in both x
\* and y lies in [cl, cr].
Thm_C1 ==
  (fn = "extcardcheck" /\ Returned /\ loc.cl < loc.cr
     /\ ~(loc.cl = 0 /\ loc.cr = inter.s))
    => ret.bdd = Window(loc.cl, loc.cr)

\* extcardlqgq has returned the diagram of the window [1, 3] over 4 common
\* values.
Wit_C1 ==
  /\ fn = "extcardcheck" /\ Returned /\ loc.pc = "done"
  /\ inter.s = 4 /\ loc.cl = 1 /\ loc.cr = 3
  /\ layer # << >>
  /\ ret.bdd = Window(1, 3)

\* C2: extcardcheck with cl = cr = c, 0 < c < m, returns the diagram that
\* accepts an assignment exactly when exactly c common values are contained
\* in both x and y.
Orig_C2 ==
  (fn = "extcardcheck" /\ Returned /\ loc.cl = loc.cr
     /\ 0 < loc.cr /\ loc.cr < inter.s)
    => ret.bdd = Window(loc.cl, loc.cr)

\* C3: extcardcheck with cl = 0 and cr = 0 returns the diagram that accepts
\* an assignment exactly when no common value is contained in both x and y.
Orig_C3 ==
  (fn = "extcardcheck" /\ Returned /\ loc.cl = 0 /\ loc.cr = 0)
    => ret.bdd = Window(0, 0)

\* C4: cardConst with 0 <= cl <= cr <= m returns the diagram that accepts an
\* assignment exactly when the number of values of the set contained in x
\* lies in [cl, cr].
Orig_C4 ==
  (fn = "cardConst" /\ Returned) => ret.bdd = Window(loc.cl, loc.cr)

\* C5: extcardcheck with cl > isize or cl > cr (cr clipped to isize) returns
\* the false diagram, without having allocated a layer array or read a cached
\* value.
Thm_C5 ==
  (fn = "extcardcheck" /\ loc.pc # "start"
     /\ (loc.cl > inter.s \/ loc.cl > loc.cr))
    => (Returned /\ ret.bdd = bdd_false /\ layer = << >> /\ obs.reads = 0)

\* extcardcheck has returned for cl = 5, cr = 3 and 4 common values.
Wit_C5 ==
  /\ fn = "extcardcheck" /\ loc.pc = "done" /\ Returned
  /\ inter.s = 4 /\ loc.cl = 5 /\ loc.cr = 3
  /\ ret.bdd = bdd_false

(***************************************************************************)
(* Claims about ValCache                                                   *)
(***************************************************************************)
CacheReady == src.pc = "ready"

\* The caller's traversal has run to its end: it alternated val() and the move
\* until the cursor became invalid.
TraversalDone(mode) == trav.mode = mode /\ ~trav.read /\ ~Valid(inter)

\* C11: after init from a source of k distinct increasing values, a traversal
\* from reset() with val() and ++ yields the k values in source order, a
\* traversal from last() with val() and -- yields them in reverse order, size()
\* is k and the cached values are those of the source, whatever cursor
\* operations and traversals came before.
Thm_C11 ==
  CacheReady =>
    /\ inter.s = Len(src.all)
    /\ inter.r = src.all
    /\ TraversalDone("fwd") => trav.out = src.all
    /\ TraversalDone("bwd") => trav.out = Reverse(src.all)

\* A backward traversal of a cache of 3 values has ended.
Wit_C11 ==
  /\ CacheReady /\ Len(src.all) = 3
  /\ TraversalDone("bwd")
  /\ Len(trav.out) = 3 /\ trav.out[1] = src.all[3] /\ trav.out[3] = src.all[1]

CursorInRange == -1 <= inter.c /\ inter.c <= inter.n

\* The last operator() returned true exactly when -1 < c < n.
ValidResult == trav.op = "()" => (trav.ok <=> (-1 < inter.c /\ inter.c < inter.n))

\* C12 as stated: after init and any sequence of reset(), last(), finish(), ++,
\* -- and index(i) with 0 <= i <= n, the cursor satisfies -1 <= c <= n, and
\* operator() returns true exactly when -1 < c < n.
Orig_C12 == CacheReady => (CursorInRange /\ ValidResult)

\* The step is not a ++ or -- applied at an invalid cursor.
MoveAtValid == trav'.op \in {"++", "--"} => Valid(inter)

\* C12, amended: reset(), last(), finish(), index(i) with 0 <= i <= n, and ++
\* and -- applied at a valid cursor keep -1 <= c <= n (a ++ or -- at an invalid
\* cursor is not clamped and may leave this range); operator() returns true
\* exactly when -1 < c < n, in every state.
Thm_C12 ==
  /\ [][(CacheReady /\ CursorInRange /\ MoveAtValid) => CursorInRange']_vars
  /\ [](CacheReady => ValidResult)

\* ++ at the last of 3 cached values has put the cursor at n.
Wit_C12 ==
  /\ CacheReady /\ inter.n = 3
  /\ trav.op = "++" /\ inter.c = inter.n

(***************************************************************************)
(* Claims about the runs of the builders                                   *)
(***************************************************************************)
\* C13: in every call of extcardcheck and of cardConst (0 <= cl <= cr <= size),
\* every read inter.min() of the cache happens at a valid cursor.
Orig_C13 == ~obs.badRead

\* The positions of the three sweep loops (extcardeq, first and last sweep of
\* extcardlqgq / cardConst): the loop test, the inner loop, the loop's end.
OuterPcs == {"eq_outer", "lq_low_outer", "lq_up_outer"}
InnerPcs == {"eq_inner", "lq_low_inner", "lq_up_inner"}
AfterPcs == {"eq_after", "lq_low_after", "lq_up_after"}

\* An outer iteration starts: pos saves the cursor, which is valid.
IterationStarts ==
  (loc.pc \in OuterPcs /\ loc'.pc \in InnerPcs)
    => (Valid(inter) /\ inter' = inter /\ ToInt(loc'.pos) = inter.c)

\* An outer iteration ends and the loop goes on: the cursor is the saved pos
\* minus one, wherever the inner loop left it.
IterationRepeats ==
  (loc.pc \in AfterPcs /\ loc'.pc \in OuterPcs)
    => (inter'.c = ToInt(loc.pos) - 1 /\ loc'.pos = loc.pos)

\* The sweep loop is left: the cursor is invalid.
LoopLeft ==
  (loc.pc \in (OuterPcs \cup AfterPcs) /\ loc'.pc \notin (OuterPcs \cup InnerPcs))
    => ~Valid(inter)

\* C14: in every sweep loop, an outer iteration saves the valid cursor in pos,
\* the next outer iteration is entered with the cursor at pos - 1 however far
\* the inner loop moved it (so the outer loop visits the positions in strictly
\* descending order, one step at a time), and the loop is left only with an
\* invalid cursor.
Thm_C14 == [][IterationStarts /\ IterationRepeats /\ LoopLeft]_vars

\* The first sweep is about to start a further iteration at pos - 1, after an
\* inner loop that ran through cl >= 2 layers and moved the cursor twice.
Wit_C14 ==
  /\ loc.pc = "lq_low_outer" /\ Valid(inter)
  /\ ToInt(loc.pos) > 0 /\ inter.c = ToInt(loc.pos) - 1
  /\ loc.i = loc.n /\ loc.cl >= 2

\* C15: in every call of extcardcheck that reaches extcardeq or extcardlqgq
\* and every call of cardConst, every access layer[j] has 0 <= j < n = cr + 1,
\* and every layer is written before it is read.
Thm_C15 ==
  /\ ~obs.layerFault
  /\ layer # << >> => (DOMAIN layer = 0 .. loc.cr /\ obs.written \subseteq 0 .. loc.cr)

\* extcardlqgq has returned layer[n - 1] after writing all 4 layers of the
\* window [1, 3] over 4 common values.
Wit_C15 ==
  /\ fn = "extcardcheck" /\ Returned /\ ~obs.layerFault
  /\ inter.s = 4 /\ loc.cl = 1 /\ loc.cr = 3
  /\ obs.written = 0 .. 3

=============================================================================
